---------------------------- MODULE Spec2Model ----------------------------
(***************************************************************************)
(* Model of src/pcal.py: one run of the Streamlit script from the render   *)
(* pass over the closed-period list (lines 262-298) to the end of the      *)
(* monthly fair-share allocation (lines 333-430).                          *)
(*                                                                         *)
(* Dates are ordinals: date 0 is the first day of the month that holds the *)
(* current date.  The calendar is scaled down: month m has monthrange(m)   *)
(* days.  A weight is an exact fraction [num, den]; the code computes the  *)
(* same quantities in float64.  The informational 'holidays' labels of a   *)
(* closed period are not modelled.                                         *)
(***************************************************************************)
EXTENDS Integers, Sequences, FiniteSets, TLC

\* Days of an even month of the scaled calendar (an odd month has one less).
MonthLen == 3
\* Longest closed-period list held in the session state when a run starts.
MaxPeriods == 2
\* Longest closed-period list the first of two successive runs starts from.
MaxFirstRunPeriods == 1
\* Most holiday entries the holiday calendars of the selected countries hold.
MaxHolidays == 3

VARIABLES
    current_date,        \* line 62: datetime.now().date()
    end_month_selected,  \* line 101: index of the chosen entry of month_options
    closed_periods,      \* st.session_state.closed_periods
    pc,                  \* position of the script run
    pressed,             \* which delete button reports a click in this run (0: none)
    periods_before,      \* closed_periods as the render pass found it
    remaining,           \* line 355-358: the filtered date table with its month column
    months_left,         \* the groups of remaining.groupby('month') not yet processed
    final_df,            \* line 361/430: the result table
    prev,                \* inputs and result table of the previous completed run
    all_holidays_with_info  \* line 205: the holiday entries of a holiday reset

vars == <<current_date, end_month_selected, closed_periods, pc, pressed,
          periods_before, remaining, months_left, final_df, prev,
          all_holidays_with_info>>

-----------------------------------------------------------------------------
(* The calendar *)

\* calendar.monthrange(year, month)[1]
monthrange(m) == IF m % 2 = 0 THEN MonthLen ELSE MonthLen - 1

RECURSIVE MonthStart(_)
\* Ordinal of the first day of month m.
MonthStart(m) == IF m = 0 THEN 0 ELSE MonthStart(m - 1) + monthrange(m - 1)

\* The entries of month_options the model offers: the first two of the
\* twelve that generate_month_options produces (add_months(start, i)).
month_options == <<0, 1>>

\* dt.to_period('M'): the month a date falls in.
to_period(d) == CHOOSE m \in 0 .. d : MonthStart(m) <= d /\ d < MonthStart(m + 1)

\* Day of the month, 1-based.
day_of(d) == d - MonthStart(to_period(d)) + 1

\* strftime('%Y-%m-%d'): the month part and the day part of a date.
strftime(d) == <<to_period(d), day_of(d)>>

\* current_date.replace(day=1)
start_of_current_month(cd) == cd - (day_of(cd) - 1)

\* datetime(end_year, end_month, monthrange(...)[1]).date()
end_of_end_month(sel) == MonthStart(month_options[sel] + 1) - 1


-----------------------------------------------------------------------------
(* The holiday reset, lines 124-175 and 202-212.  A holiday entry is a     *)
(* record [date, country]; its name is not modelled.                       *)

\* Two of the keys of country_classes, in the order of the dictionary.
country_classes == <<"US", "JP">>

RECURSIVE SortedDates(_)
\* sorted(country_holidays.items()): the dates of one calendar, ascending.
SortedDates(dates) ==
    IF dates = {} THEN <<>>
    ELSE LET least == CHOOSE d \in dates : \A e \in dates : d <= e
         IN  <<least>> \o SortedDates(dates \ {least})

RECURSIVE HolidaysFrom(_, _, _, _, _)
\* The loop over country_classes from its c-th key on: for a selected
\* country, an entry for each of its holidays with start_date <= date <=
\* end_date, in date order.  calendars[country] is the set of dates the
\* holidays package reports for the country.
HolidaysFrom(c, start_date, end_date, selected_countries, calendars) ==
    IF c > Len(country_classes) THEN <<>>
    ELSE LET country == country_classes[c]
             InRange(date) == start_date <= date /\ date <= end_date
             entries == IF country \in selected_countries
                        THEN LET ds == SelectSeq(SortedDates(calendars[country]), InRange)
                             IN  [k \in 1 .. Len(ds) |->
                                     [date |-> ds[k], country |-> country]]
                        ELSE <<>>
         IN  entries \o HolidaysFrom(c + 1, start_date, end_date,
                                     selected_countries, calendars)

\* get_all_holidays(start_date, end_date, selected_countries)
get_all_holidays(start_date, end_date, selected_countries, calendars) ==
    HolidaysFrom(1, start_date, end_date, selected_countries, calendars)

RECURSIVE InsertByDate(_, _)
\* Puts an entry after the entries of a sorted list whose date is not later.
InsertByDate(sorted, x) ==
    IF sorted = <<>> THEN <<x>>
    ELSE IF sorted[Len(sorted)].date <= x.date THEN Append(sorted, x)
    ELSE Append(InsertByDate(SubSeq(sorted, 1, Len(sorted) - 1), x),
                sorted[Len(sorted)])

RECURSIVE sorted_by_date(_)
\* sorted(dates_with_info, key=lambda x: x['date']): ascending and stable.
sorted_by_date(entries) ==
    IF entries = <<>> THEN <<>>
    ELSE InsertByDate(sorted_by_date(SubSeq(entries, 1, Len(entries) - 1)),
                      entries[Len(entries)])

RECURSIVE GroupLoop(_, _, _, _, _)
\* The loop of lines 163-172 from the k-th sorted entry on, with the
\* periods grouped so far and the start and end of the open period; line
\* 174 appends the last period.
GroupLoop(sorted_dates, k, grouped, start, end) ==
    IF k > Len(sorted_dates)
    THEN Append(grouped, [start |-> start, end |-> end])
    ELSE LET date == sorted_dates[k].date
         IN  IF date = end + 1
             THEN GroupLoop(sorted_dates, k + 1, grouped, start, date)
             ELSE GroupLoop(sorted_dates, k + 1,
                            Append(grouped, [start |-> start, end |-> end]),
                            date, date)

\* group_consecutive_dates(dates_with_info)
group_consecutive_dates(dates_with_info) ==
    IF dates_with_info = <<>> THEN <<>>
    ELSE LET sorted_dates == sorted_by_date(dates_with_info)
         IN  GroupLoop(sorted_dates, 2, <<>>,
                       sorted_dates[1].date, sorted_dates[1].date)

-----------------------------------------------------------------------------
(* The render pass over the closed-period list, lines 262-298 *)

\* del st.session_state.closed_periods[index]   (index counted from 1 here)
remove_closed_period(periods, index) ==
    SubSeq(periods, 1, index - 1) \o SubSeq(periods, index + 1, Len(periods))

RECURSIVE RenderLoop(_, _, _, _)
\* for i, period in enumerate(closed_periods): the list iterator and the
\* enumerate counter advance together, and the list is read again on every
\* iteration, so a deletion inside the body shifts what later reads see.
\* The start-date widget is given value = period['start'] and min_value =
\* current_date, and st.date_input raises StreamlitAPIException for a value
\* below its min_value.  Both date widgets return the dates of the period
\* being rendered; the delete button of key delete_i is the one that reports
\* the click when i = click.  Lines 292-293 then write to closed_periods[i],
\* which raises IndexError when the deletion has left no element at i.
RenderLoop(periods, i, click, cd) ==
    IF i > Len(periods) THEN [periods |-> periods, error |-> "none"]
    ELSE LET period     == periods[i]
             start_date == period.start
             end_date   == period.end
             afterDel   == IF click = i THEN remove_closed_period(periods, i)
                           ELSE periods
         IN  IF start_date < cd
             THEN [periods |-> periods, error |-> "StreamlitAPIException"]
             ELSE IF i > Len(afterDel)
             THEN [periods |-> afterDel, error |-> "IndexError"]
             ELSE RenderLoop([afterDel EXCEPT ![i] = [start |-> start_date,
                                                      end   |-> end_date]],
                             i + 1, click, cd)

-----------------------------------------------------------------------------
(* Steps 1-5: the date table, lines 334-358 *)

\* Variant of is_closed: the loop returns after looking at the first period.
is_closed_first_only(date, periods) ==
    /\ Len(periods) >= 1
    /\ periods[1].start <= date /\ date <= periods[1].end

\* is_closed(date, closed_periods)
is_closed(date, periods) ==
    \E k \in 1 .. Len(periods) :
        periods[k].start <= date /\ date <= periods[k].end

\* Variant of date_table: the days are classified with the list as it was
\* before the render pass.
date_table_stale(cd, sel, periods) ==
    LET first == start_of_current_month(cd)
        last  == end_of_end_month(sel)
    IN  [k \in 1 .. (last - first + 1) |->
            LET d == first + k - 1
            IN  [date           |-> d,
                 IsClosed       |-> is_closed(d, periods_before),
                 IsTodayOrAfter |-> d >= cd,
                 month          |-> to_period(d)]]

\* pd.date_range(start_of_current_month, end_of_end_month) with the columns
\* IsClosed, IsTodayOrAfter and month.
date_table(cd, sel, periods) ==
    LET first == start_of_current_month(cd)
        last  == end_of_end_month(sel)
    IN  [k \in 1 .. (last - first + 1) |->
            LET d == first + k - 1
            IN  [date           |-> d,
                 IsClosed       |-> is_closed(d, periods),
                 IsTodayOrAfter |-> d >= cd,
                 month          |-> to_period(d)]]

IsTodayOrAfter(row) == row.IsTodayOrAfter

\* Variant of remaining_of: the filter on IsTodayOrAfter is left out.
remaining_unfiltered(cd, sel, periods) == date_table(cd, sel, periods)

\* remaining = df[df['IsTodayOrAfter']]
remaining_of(cd, sel, periods) ==
    SelectSeq(date_table(cd, sel, periods), IsTodayOrAfter)

\* The keys of remaining.groupby('month'), ascending.
group_keys(rem) ==
    LET keys == {rem[k].month : k \in 1 .. Len(rem)}
    IN  SortSeq(CHOOSE s \in [1 .. Cardinality(keys) -> keys] :
                    \A a, b \in 1 .. Cardinality(keys) : a # b => s[a] # s[b],
                LAMBDA a, b : a < b)

\* One group of remaining.groupby('month'): the rows of that month, in order.
group_of(rem, m) == LET InMonth(row) == row.month = m IN SelectSeq(rem, InMonth)

-----------------------------------------------------------------------------
(* Steps 6-19: the allocation of one month group, lines 366-427.           *)
(* Inside a month every weight is a multiple of 1 / N_plus_C; the          *)
(* operators below carry the numerators, month_final attaches N_plus_C.    *)

RECURSIVE SumNum(_, _)
\* Sum of the numerators of rows 1..n of a weighted table.
SumNum(rows, n) == IF n = 0 THEN 0 ELSE SumNum(rows, n - 1) + rows[n].percentage.num

\* Step 6: N, C and the guarded denominator.
N(group) == Cardinality({k \in 1 .. Len(group) : ~group[k].IsClosed})
\* Variant of C: the closed days are counted over the whole table.
C_whole_table(group) ==
    Cardinality({k \in 1 .. Len(remaining) : remaining[k].IsClosed})

C(group) == Cardinality({k \in 1 .. Len(group) : group[k].IsClosed})
N_plus_C(group) == IF N(group) + C(group) > 0 THEN N(group) + C(group) ELSE 1

\* The value None of PrecedingActiveIndex; rows are indexed from 1.
None == 0

\* Step 7: 0 if x else 1 / N_plus_C   (numerator)
BasePercentage(group, k) == IF group[k].IsClosed THEN 0 ELSE 1

\* Variant of find_preceding_active_index: iloc[0] in place of iloc[-1].
find_first_active_index(current_idx, group) ==
    LET preceding == {k \in 1 .. Len(group) : k < current_idx /\ ~group[k].IsClosed}
    IN  IF preceding # {}
        THEN CHOOSE k \in preceding : \A j \in preceding : k <= j
        ELSE None

\* Step 9: the last row before current_idx that is not closed, or None.
find_preceding_active_index(current_idx, group) ==
    LET preceding == {k \in 1 .. Len(group) : k < current_idx /\ ~group[k].IsClosed}
    IN  IF preceding # {}
        THEN CHOOSE k \in preceding : \A j \in preceding : j <= k
        ELSE None

\* Step 10
PrecedingActiveIndex(group, k) ==
    IF group[k].IsClosed THEN find_preceding_active_index(k, group) ELSE None

\* Step 11
closed_days_with_preceding(group) ==
    {k \in 1 .. Len(group) :
        group[k].IsClosed /\ PrecedingActiveIndex(group, k) # None}

\* Step 12: groupby('PrecedingActiveIndex').size()
ClosedDaysCount(group, p) ==
    Cardinality({k \in closed_days_with_preceding(group) :
                    PrecedingActiveIndex(group, k) = p})

\* Steps 13-15: ClosedDaysCount * (1 / N_plus_C) merged on Index, NaN -> 0
ExtraPercentage(group, k) ==
    IF \E j \in closed_days_with_preceding(group) :
            PrecedingActiveIndex(group, j) = k
    THEN ClosedDaysCount(group, k) * 1
    ELSE 0

\* Step 16
FinalPercentage(group, k) == BasePercentage(group, k) + ExtraPercentage(group, k)

\* Step 17
percentage(group, k) ==
    IF group[k].IsClosed THEN 0 ELSE FinalPercentage(group, k)

\* Step 18: the columns kept, the date formatted as a string.
month_final(group) ==
    [k \in 1 .. Len(group) |->
        [date       |-> strftime(group[k].date),
         percentage |-> [num |-> percentage(group, k), den |-> N_plus_C(group)]]]

\* np.isclose(total, 1.0) with numpy's default tolerances:
\* |total - 1| <= atol + rtol * 1, atol = 1e-8, rtol = 1e-5, all times 10^8.
TolScale == 100000000
AbsTol == 1
RelTol == 1000
isclose_one(num, den) ==
    (IF num >= den THEN num - den ELSE den - num) * TolScale <= (AbsTol + RelTol) * den

\* Variant of Step19: no correction at all.
Step19_none(mf) == mf

\* Variant of Step19: the adjustment goes to the last active day.
Step19_last_active(mf) ==
    LET den              == mf[1].percentage.den
        total_percentage == SumNum(mf, Len(mf))
        adjustment       == den - total_percentage
        active_days      == {k \in 1 .. Len(mf) : mf[k].percentage.num > 0}
    IN  IF ~isclose_one(total_percentage, den) /\ active_days # {}
        THEN LET last_active_idx == CHOOSE k \in active_days :
                                       \A j \in active_days : j <= k
             IN  [mf EXCEPT ![last_active_idx].percentage.num = @ + adjustment]
        ELSE mf

\* Variant of Step19: with no active day the adjustment goes to the first row.
Step19_first_row(mf) ==
    LET den              == mf[1].percentage.den
        total_percentage == SumNum(mf, Len(mf))
        adjustment       == den - total_percentage
        active_days      == {k \in 1 .. Len(mf) : mf[k].percentage.num > 0}
    IN  IF ~isclose_one(total_percentage, den)
        THEN LET first_active_idx ==
                    IF active_days # {}
                    THEN CHOOSE k \in active_days : \A j \in active_days : k <= j
                    ELSE 1
             IN  [mf EXCEPT ![first_active_idx].percentage.num = @ + adjustment]
        ELSE mf

\* Variant of Step19: adjustment = total - 1.
Step19_sign(mf) ==
    LET den              == mf[1].percentage.den
        total_percentage == SumNum(mf, Len(mf))
        adjustment       == total_percentage - den
        active_days      == {k \in 1 .. Len(mf) : mf[k].percentage.num > 0}
    IN  IF ~isclose_one(total_percentage, den) /\ active_days # {}
        THEN LET first_active_idx == CHOOSE k \in active_days :
                                        \A j \in active_days : k <= j
             IN  [mf EXCEPT ![first_active_idx].percentage.num = @ + adjustment]
        ELSE mf

\* Step 19: when the month's total is not close to 1, add 1 - total to the
\* first row whose percentage is > 0, if there is one.
Step19(mf) ==
    LET den              == mf[1].percentage.den
        total_percentage == SumNum(mf, Len(mf))
        adjustment       == den - total_percentage
        active_days      == {k \in 1 .. Len(mf) : mf[k].percentage.num > 0}
    IN  IF ~isclose_one(total_percentage, den) /\ active_days # {}
        THEN LET first_active_idx == CHOOSE k \in active_days :
                                        \A j \in active_days : k <= j
             IN  [mf EXCEPT ![first_active_idx].percentage.num = @ + adjustment]
        ELSE mf

\* The body of the monthly loop for one group.
allocate_month(group) == Step19(month_final(group))

-----------------------------------------------------------------------------
(* The script run *)

\* The closed periods a session can hold: start and end lie between the
\* current date and the end of the range (the min_value and max_value of the
\* date widgets, and the range get_all_holidays is asked for), start <= end.
Periods(cd, sel) ==
    {p \in [start : cd .. end_of_end_month(sel), end : cd .. end_of_end_month(sel)] :
        p.start <= p.end}

PeriodLists(cd, sel, longest) ==
    UNION {[1 .. n -> Periods(cd, sel)] : n \in 0 .. longest}

\* No previous run.
NoRun == [current_date |-> -1, end_month_selected |-> 0,
          closed_periods |-> <<>>, final_df |-> <<>>]

\* The script has reached the render pass: the current date lies in the
\* first month, an end month is selected, the session holds a list of closed
\* periods, and nothing has been computed yet.
InitWith(longest) ==
    /\ current_date \in 0 .. (monthrange(0) - 1)
    /\ end_month_selected \in 1 .. Len(month_options)
    /\ closed_periods \in PeriodLists(current_date, end_month_selected, longest)
    /\ pc = "render"
    /\ pressed = 0
    /\ periods_before = closed_periods
    /\ remaining = <<>>
    /\ months_left = <<>>
    /\ final_df = <<>>
    /\ prev = NoRun
    /\ all_holidays_with_info = <<>>

Init == InitWith(MaxPeriods)

\* Lines 262-298, with at most one delete button reporting a click.
RenderPass ==
    /\ pc = "render"
    /\ \E click \in 0 .. Len(closed_periods) :
        LET r == RenderLoop(closed_periods, 1, click, current_date)
        IN  /\ pressed' = click
            /\ closed_periods' = r.periods
            /\ pc' = IF r.error = "none" THEN "table" ELSE r.error
    /\ UNCHANGED <<current_date, end_month_selected, periods_before,
                   remaining, months_left, final_df, prev, all_holidays_with_info>>

\* Lines 334-361: Steps 1-5 and the empty result table.
DateTable ==
    /\ pc = "table"
    /\ end_of_end_month(end_month_selected) >= start_of_current_month(current_date)
    /\ remaining' = remaining_of(current_date, end_month_selected, closed_periods)
    /\ months_left' = group_keys(remaining')
    /\ final_df' = <<>>
    /\ pc' = "months"
    /\ UNCHANGED <<current_date, end_month_selected, closed_periods, pressed,
                   periods_before, prev, all_holidays_with_info>>

\* Lines 364-430: one iteration of the loop over the month groups.
MonthLoop ==
    /\ pc = "months"
    /\ months_left # <<>>
    /\ final_df' = final_df \o allocate_month(group_of(remaining, Head(months_left)))
    /\ months_left' = Tail(months_left)
    /\ UNCHANGED <<current_date, end_month_selected, closed_periods, pc, pressed,
                   periods_before, remaining, prev, all_holidays_with_info>>

\* The loop is exhausted: the result table is displayed (lines 432-471).
ShowResult ==
    /\ pc = "months"
    /\ months_left = <<>>
    /\ pc' = "done"
    /\ UNCHANGED <<current_date, end_month_selected, closed_periods, pressed,
                   periods_before, remaining, months_left, final_df, prev,
                   all_holidays_with_info>>

Next == RenderPass \/ DateTable \/ MonthLoop \/ ShowResult

Spec == Init /\ [][Next]_vars

\* The session state survives a completed run and the script runs again from
\* the top: the clock may have moved on within the month (line 62), and the
\* add form may append one new period before the render pass (lines 238-252,
\* its two date widgets bounded by current_date and end_of_end_month).
Rerun ==
    /\ pc = "done"
    /\ prev = NoRun
    /\ prev' = [current_date       |-> current_date,
                end_month_selected |-> end_month_selected,
                closed_periods     |-> closed_periods,
                final_df           |-> final_df]
    /\ current_date' \in current_date .. (monthrange(0) - 1)
    /\ \/ closed_periods' = closed_periods
       \/ \E new \in Periods(current_date', end_month_selected) :
             closed_periods' = Append(closed_periods, new)
    /\ periods_before' = closed_periods'
    /\ pc' = "render"
    /\ pressed' = 0
    /\ remaining' = <<>>
    /\ months_left' = <<>>
    /\ final_df' = <<>>
    /\ UNCHANGED <<end_month_selected, all_holidays_with_info>>

InitRerun == InitWith(MaxFirstRunPeriods)

NextRerun == Next \/ Rerun

SpecRerun == InitRerun /\ [][NextRerun]_vars

\* The holiday calendars the holidays package can report over the months
\* on offer, at most MaxHolidays holidays in all.
Calendars ==
    LET dates == 0 .. end_of_end_month(Len(month_options))
        countries == {country_classes[c] : c \in 1 .. Len(country_classes)}
    IN  {cal \in [countries -> SUBSET dates] :
            Cardinality({e \in countries \X dates : e[2] \in cal[e[1]]}) <= MaxHolidays}

\* A run in which the end month or the selected countries have changed
\* (line 202, also the first run of a session): the session list is still
\* the one of line 18, and line 205 has fetched the holiday entries.
InitHolidays ==
    /\ current_date \in 0 .. (monthrange(0) - 1)
    /\ end_month_selected \in 1 .. Len(month_options)
    /\ \E selected_countries \in SUBSET {country_classes[c] : c \in 1 .. Len(country_classes)} :
       \E calendars \in Calendars :
         all_holidays_with_info =
             get_all_holidays(current_date, end_of_end_month(end_month_selected),
                              selected_countries, calendars)
    /\ closed_periods = <<>>
    /\ pc = "holidays"
    /\ pressed = 0
    /\ periods_before = <<>>
    /\ remaining = <<>>
    /\ months_left = <<>>
    /\ final_df = <<>>
    /\ prev = NoRun

\* Lines 207-212: the closed periods become the grouped holidays.
ResetHolidays ==
    /\ pc = "holidays"
    /\ closed_periods' = group_consecutive_dates(all_holidays_with_info)
    /\ periods_before' = closed_periods'
    /\ pc' = "render"
    /\ UNCHANGED <<current_date, end_month_selected, pressed, remaining,
                   months_left, final_df, prev, all_holidays_with_info>>

NextHolidays == ResetHolidays \/ Next

SpecHolidays == InitHolidays /\ [][NextHolidays]_vars

-----------------------------------------------------------------------------
(* Vocabulary of the properties: days, classification and output weights,  *)
(* read off the inputs and the result table.                               *)

\* The date a formatted date stands for.
ParseDate(str) == MonthStart(str[1]) + str[2] - 1

\* Order of two formatted dates (the order of their strings).
DateStrLess(a, b) == a[1] < b[1] \/ (a[1] = b[1] /\ a[2] < b[2])

\* The date lies inside at least one period of the list.
Covered(d, periods) ==
    \E k \in 1 .. Len(periods) : periods[k].start <= d /\ d <= periods[k].end

Open(d) == ~Covered(d, closed_periods)

Max(a, b) == IF a >= b THEN a ELSE b
Min(a, b) == IF a <= b THEN a ELSE b

\* First and last in-range day of month m for a run with current date cd.
FirstDay(m, cd) == Max(cd, MonthStart(m))
LastDay(m, sel) == Min(end_of_end_month(sel), MonthStart(m + 1) - 1)

\* The in-range days of month m in the current run, and their number D.
Days(m) == FirstDay(m, current_date) .. LastDay(m, end_month_selected)
D(m) == LastDay(m, end_month_selected) - FirstDay(m, current_date) + 1

\* The months the loop has already allocated in the current run.
DoneMonths ==
    {m \in {remaining[k].month : k \in 1 .. Len(remaining)} :
        /\ pc \in {"months", "done"}
        /\ \A j \in 1 .. Len(months_left) : months_left[j] # m}

\* The rows of month m in a result table.
OutMonth(df, m) == LET InMonth(row) == row.date[1] = m IN SelectSeq(df, InMonth)

\* The output weight of date d.
W(d) == LET k == CHOOSE k \in 1 .. Len(final_df) : final_df[k].date = strftime(d)
        IN  final_df[k].percentage

RECURSIVE SumW(_, _)
\* Sum of the output numerators of the dates first..last.
SumW(first, last) == IF first > last THEN 0 ELSE W(first).num + SumW(first + 1, last)

MonthSum(m) == SumW(FirstDay(m, current_date), LastDay(m, end_month_selected))

HasOpenDay(m) == \E d \in Days(m) : Open(d)

\* Number of closed days of month m whose nearest preceding open day is d.
K(m, d) ==
    Cardinality({c \in Days(m) : c > d /\ \A h \in (d + 1) .. c : ~Open(h)})

\* The first open day of month m (the month has one).
FirstOpen(m) == CHOOSE d \in Days(m) : Open(d) /\ \A e \in Days(m) : Open(e) => d <= e

\* Number of closed days of month m that come before its first open day.
Leading(m) == FirstOpen(m) - FirstDay(m, current_date)

-----------------------------------------------------------------------------
\* C1: in every allocated month group with at least one open day the output
\* weights are fractions over D, the number of in-range days of the month,
\* and sum to exactly 1, wherever the closed days lie and also when the
\* month is truncated by the current date; a month's only open day has
\* weight 1.
C1_MonthSumIsOne ==
    \A m \in DoneMonths :
        HasOpenDay(m) =>
            /\ \A d \in Days(m) : W(d).den = D(m)
            /\ MonthSum(m) = D(m)
            /\ \A d \in Days(m) :
                 (Open(d) /\ \A e \in Days(m) \ {d} : ~Open(e)) => W(d).num = W(d).den

\* A finished run with a truncated month that starts with a closed day and
\* has exactly one open day, which is not the first in-range day.
C1_Witness ==
    /\ pc = "done"
    /\ \E m \in DoneMonths :
        /\ current_date > MonthStart(m)
        /\ ~Open(FirstDay(m, current_date))
        /\ Cardinality({d \in Days(m) : Open(d)}) = 1

\* C2 as stated: in a month group that begins with closed days, every open
\* day has output weight u + u * K, the weight of the leading closed days
\* going to no open day.
C2_LeadingWeightDropped ==
    \A m \in DoneMonths :
        (HasOpenDay(m) /\ ~Open(FirstDay(m, current_date))) =>
            \A d \in Days(m) :
                Open(d) => W(d).num = 1 + K(m, d) /\ W(d).den = D(m)

\* C2 amended: in a month group that begins with L closed days, every open
\* day other than the first open day has output weight u + u * K, and the
\* first open day has u + u * K + u * L: the roll-forward drops the leading
\* weight, and Step 19 then adds it to the first open day.
C2_LeadingWeightToFirstOpen ==
    \A m \in DoneMonths :
        (HasOpenDay(m) /\ ~Open(FirstDay(m, current_date))) =>
            \A d \in Days(m) :
                Open(d) =>
                    /\ W(d).den = D(m)
                    /\ W(d).num = 1 + K(m, d)
                                  + (IF d = FirstOpen(m) THEN Leading(m) ELSE 0)

\* A finished run with a month that begins with a closed day and has at
\* least two open days.
C2_Witness ==
    /\ pc = "done"
    /\ \E m \in DoneMonths :
        /\ ~Open(FirstDay(m, current_date))
        /\ Cardinality({d \in Days(m) : Open(d)}) >= 2

\* C3: every day of the result table that lies inside at least one closed
\* period has weight exactly 0, also in a month Step 19 has corrected.
C3_ClosedDayIsZero ==
    \A k \in 1 .. Len(final_df) :
        Covered(ParseDate(final_df[k].date), closed_periods) =>
            final_df[k].percentage.num = 0

\* A finished run with two overlapping periods, the later one listed first,
\* and a corrected month: it begins with a day only the second period
\* covers and has an open day.
C3_Witness ==
    /\ pc = "done"
    /\ Len(closed_periods) = 2
    /\ closed_periods[2].start < closed_periods[1].start
    /\ closed_periods[1].start <= closed_periods[2].end
    /\ \E m \in DoneMonths :
        /\ HasOpenDay(m)
        /\ FirstDay(m, current_date) < closed_periods[1].start
        /\ Covered(FirstDay(m, current_date), closed_periods)

\* C4: in a month group whose first in-range day is open, every open day
\* has output weight u * (1 + K), every closed day 0, with u = 1 / D, and
\* Step 19 has changed nothing.
C4_ForwardRoll ==
    \A m \in DoneMonths :
        Open(FirstDay(m, current_date)) =>
            /\ \A d \in Days(m) :
                 /\ W(d).den = D(m)
                 /\ W(d).num = IF Open(d) THEN 1 + K(m, d) ELSE 0
            /\ OutMonth(final_df, m) = month_final(group_of(remaining, m))

\* A finished run with a month that starts with two open days followed by
\* a closed day.
C4_Witness ==
    /\ pc = "done"
    /\ \E m \in DoneMonths :
        /\ D(m) >= 3
        /\ Open(FirstDay(m, current_date))
        /\ Open(FirstDay(m, current_date) + 1)
        /\ ~Open(FirstDay(m, current_date) + 2)

\* C5: a month group with no open day gets weight 0 on every day, sums to
\* 0 and is left alone by Step 19, the other months of the run sum to 1 as
\* usual, and the finished table holds every month of the range.
C5_AllClosedMonth ==
    /\ \A m \in DoneMonths :
        ~HasOpenDay(m) =>
            /\ \A d \in Days(m) : W(d).num = 0
            /\ MonthSum(m) = 0
            /\ \A o \in DoneMonths : HasOpenDay(o) => MonthSum(o) = D(o)
    /\ pc = "done" =>
         \A d \in current_date .. end_of_end_month(end_month_selected) :
             \E k \in 1 .. Len(final_df) : final_df[k].date = strftime(d)

\* A finished run over two months, one with no open day and one with an
\* open day.
C5_Witness ==
    /\ pc = "done"
    /\ \E m, o \in DoneMonths : ~HasOpenDay(m) /\ HasOpenDay(o)

\* C6 as stated: the finished table has one row for each date from the
\* first day of the start month to the last day of the end month.
C6_RowPerTableDate ==
    pc = "done" =>
        LET first == start_of_current_month(current_date)
            last  == end_of_end_month(end_month_selected)
        IN  /\ Len(final_df) = last - first + 1
            /\ \A k \in 1 .. Len(final_df) : final_df[k].date = strftime(first + k - 1)

\* C6 amended: the finished table has exactly one row for each date from
\* the current date to the last day of the end month, in ascending date
\* order within and across months.
C6_RowPerRemainingDate ==
    pc = "done" =>
        LET last == end_of_end_month(end_month_selected)
        IN  /\ Len(final_df) = last - current_date + 1
            /\ \A k \in 1 .. Len(final_df) :
                 final_df[k].date = strftime(current_date + k - 1)
            /\ \A k \in 1 .. (Len(final_df) - 1) :
                 DateStrLess(final_df[k].date, final_df[k + 1].date)

\* A finished run that starts after the first day of the month and spans
\* two months.
C6_Witness ==
    /\ pc = "done"
    /\ current_date > start_of_current_month(current_date)
    /\ Cardinality(DoneMonths) = 2

\* C9: applying Step 19 again to an allocated month of the result table
\* changes no weight, whether or not the month has an open day.
C9_CorrectionIdempotent ==
    \A m \in DoneMonths :
        Step19(OutMonth(final_df, m)) = OutMonth(final_df, m)

\* A finished run with a month Step 19 corrected (leading closed day, an
\* open day) and a month with no open day.
C9_Witness ==
    /\ pc = "done"
    /\ \E m, o \in DoneMonths :
        /\ HasOpenDay(m) /\ ~Open(FirstDay(m, current_date))
        /\ ~HasOpenDay(o)

\* C10: a click on the delete button of period i leaves, after the render
\* pass, the list without exactly that period, the other periods unchanged
\* and in order, and the pass raises no IndexError.
C10_DeleteRemovesThatPeriod ==
    (pc # "render" /\ pressed > 0) =>
        /\ pc # "IndexError"
        /\ closed_periods =
             [k \in 1 .. (Len(periods_before) - 1) |->
                 IF k < pressed THEN periods_before[k] ELSE periods_before[k + 1]]

-----------------------------------------------------------------------------
(* Two successive runs, SpecRerun *)

\* Both runs have finished: the previous one is recorded, this one is done.
BothDone == prev # NoRun /\ pc = "done"

\* The two runs built their date table over the same range.
SameTableRange ==
    /\ start_of_current_month(prev.current_date) = start_of_current_month(current_date)
    /\ prev.end_month_selected = end_month_selected

C8_MonthsIndependent ==
    (/\ BothDone
     /\ prev.current_date = current_date
     /\ prev.end_month_selected = end_month_selected) =>
        \A m \in DoneMonths :
            (\A d \in Days(m) :
                Covered(d, prev.closed_periods) <=> Covered(d, closed_periods)) =>
                OutMonth(final_df, m) = OutMonth(prev.final_df, m)

\* Two finished runs over the same two-month range: the second has a period
\* that runs from the last day of the first month into the second month,
\* the first month is classified alike in both runs (its last day closed,
\* an earlier day open) and the second month is not.
C8_Witness ==
    /\ BothDone
    /\ prev.current_date = current_date
    /\ prev.end_month_selected = end_month_selected
    /\ Cardinality(DoneMonths) = 2
    /\ \E k \in 1 .. Len(closed_periods) :
         /\ closed_periods[k].start = MonthStart(1) - 1
         /\ closed_periods[k].end >= MonthStart(1)
    /\ HasOpenDay(0)
    /\ \A d \in Days(0) :
         Covered(d, prev.closed_periods) <=> Covered(d, closed_periods)
    /\ \E d \in Days(1) :
         ~(Covered(d, prev.closed_periods) <=> Covered(d, closed_periods))

-----------------------------------------------------------------------------
(* The holiday reset, SpecHolidays *)

\* The dates of the holiday entries.
HolidayDates ==
    {all_holidays_with_info[k].date : k \in 1 .. Len(all_holidays_with_info)}

\* C11: the periods group_consecutive_dates returns for the holiday entries,
\* also when a date occurs in more than one entry, are in ascending order,
\* cover exactly the dates of the entries, and leave at least one uncovered
\* day between any two of them (no duplicate, overlapping or adjacent
\* periods).
C11_PeriodsNormalized ==
    pc = "render" =>
        /\ \A k \in 1 .. Len(closed_periods) :
             closed_periods[k].start <= closed_periods[k].end
        /\ \A d \in 0 .. end_of_end_month(Len(month_options)) :
             Covered(d, closed_periods) <=> d \in HolidayDates
        /\ \A j, k \in 1 .. Len(closed_periods) :
             j < k => closed_periods[j].end + 1 < closed_periods[k].start

=============================================================================
